---- MODULE Spec2Model ----
(***************************************************************************)
(* vramfs: the GPU memory block pool (vram::memory) and the path index     *)
(* (index_find and the FUSE handlers) of src/src/memory.cpp.               *)
(*                                                                         *)
(* The OpenCL device is modelled by the memory of its buffers (devmem) and *)
(* by its single in-order command queue (queue): a command the device      *)
(* accepts is appended to the queue and executed by DeviceStep, in order;  *)
(* a blocking command returns after every command before it has executed.  *)
(* Whether the device accepts a command is an input of the call.           *)
(***************************************************************************)
EXTENDS Integers, Sequences, FiniteSets, TLC

(* ------------------------------ bounds -------------------------------- *)

\* Buffers the device has memory for (an allocation beyond it fails): under
\* Spec, and under SpecData.
MaxBuffers == 3
DataBuffers == 1
\* Bytes are 0..MaxByte.
MaxByte == 1
\* A write() that leaves commands in the queue (an asynchronous one, or one
\* whose clear is accepted and whose write is not) is called only while the
\* queue holds fewer commands than this.
MaxQueue == 1
\* Private copies of asynchronous writes that may be allocated at a time.
MaxCopies == 1
\* Width of size_t, in bits.
SizeBits == 5
\* increase_pool is called with 0..MaxSize bytes.
MaxSize == 7
\* Width of int, in bits (narrower than size_t, as on LP64).
IntBits == 3

\* block::size (memory.hpp), scaled down.
BlockSize == 2

(* ------------------------------ integers ------------------------------ *)

RECURSIVE Pow2(_)
Pow2(n) == IF n = 0 THEN 1 ELSE 2 * Pow2(n - 1)

SizeMod == Pow2(SizeBits)
IntMod == Pow2(IntBits)

\* A value as a size_t.
ToSize(x) == x % SizeMod

\* A size_t converted to int (modulo 2^IntBits, two's complement).
ToInt(x) ==
    LET m == x % IntMod
    IN  IF m >= IntMod \div 2 THEN m - IntMod ELSE m

Bytes == 0..MaxByte
Zeros(n) == [i \in 1..n |-> 0]

\* A byte of a buffer the device created without host data and has not
\* written yet: any byte, which no read can rely on.
Indeterminate == MaxByte + 1

(* ------------------------------- state -------------------------------- *)

VARIABLES
    capacity,       \* device: the buffers it has memory for
    ready,          \* bool ready
    has_fillbuffer, \* bool has_fillbuffer
    context,        \* context, device and queue are valid
    zero_buffer,    \* zero_buffer is a valid buffer of zeros
    pool,           \* std::vector<cl::Buffer> pool: the free list
    total_blocks,   \* int total_blocks
    devmem,         \* device: the bytes of each buffer
    queue,          \* device: the commands accepted and not yet executed
    blocks,         \* the live block objects, by handle
    written,        \* per live block and byte: the last byte an accepted
                    \* write() put there, or None
    heap,           \* the private copies of asynchronous writes that are
                    \* allocated and not deleted, by address
    threads,        \* per thread inside allocate(): where it is, and the
                    \* buffer its block has taken
    entries,        \* the rows of table entries
    lastOp          \* the last call: its arguments and what it returned

vars == <<capacity, ready, has_fillbuffer, context, zero_buffer, pool, total_blocks,
          devmem, queue, blocks, written, heap, threads, entries, lastOp>>

\* No value: no index failed, no byte written.
None == 0 - 1
\* nullptr, as a block_ref.
Null == 0

(* ------------------------------- device ------------------------------- *)

\* A write command: data goes to buf at offset off (0-based).
\* The data is read at ptr when the command executes. copy = None: ptr is
\* the caller's buffer of a blocking call, or the command has its data on
\* the device; else ptr is the private copy at address copy, and data is
\* what the caller's buffer held at the call.
WriteCmd(buf, off, data) == [buf |-> buf, off |-> off, data |-> data, copy |-> None]

\* A write command whose ptr is the private copy at address copy.
CopyCmd(buf, off, data, copy) == [buf |-> buf, off |-> off, data |-> data, copy |-> copy]

\* The bytes at ptr when the command executes; those of a deleted copy are
\* indeterminate.
Payload(c) ==
    IF c.copy = None THEN c.data
    ELSE IF c.copy \in DOMAIN heap THEN heap[c.copy]
    ELSE [i \in 1..Len(c.data) |-> Indeterminate]

\* enqueueFillBuffer(buf, 0, 0, block::size) / enqueueCopyBuffer(zero_buffer,
\* buf, 0, 0, block::size): both put block::size zeros at offset 0.
FillCmd(buf) == WriteCmd(buf, 0, Zeros(BlockSize))

\* The device executes one command on its memory.
Execute(mem, c) ==
    IF c.buf \in DOMAIN mem
    THEN [mem EXCEPT ![c.buf] =
            [i \in 1..BlockSize |->
                IF i > c.off /\ i <= c.off + Len(c.data)
                THEN Payload(c)[i - c.off] ELSE @[i]]]
    ELSE mem

\* The device executes the commands of q in order.
RECURSIVE ExecuteAll(_, _)
ExecuteAll(mem, q) ==
    IF q = <<>> THEN mem ELSE ExecuteAll(Execute(mem, Head(q)), Tail(q))

\* The callbacks of the commands of q without async_write_dealloc.
dealloc_never(hp, q) == hp

\* The events of the commands of q complete: async_write_dealloc is called
\* for each that has a private copy, and deletes it.
async_write_dealloc(hp, q) ==
    [a \in DOMAIN hp \ {q[i].copy : i \in 1..Len(q)} |-> hp[a]]

\* new char[size]: the address of the new array.
NewCopy(hp) == CHOOSE a \in 1..(Cardinality(DOMAIN hp) + 1) : a \notin DOMAIN hp

\* The device accepts a read or write of size bytes at off of a buffer.
ValidRegion(off, size) == size >= 1 /\ off >= 0 /\ off + size <= BlockSize

\* Platforms cl::Platform::get may report in one call.
MaxPlatforms == 2

\* A platform: whether it has a GPU device, whether its version is >= 1.2.
Platform == [gpu : BOOLEAN, v12 : BOOLEAN]

RECURSIVE SeqsUpTo(_, _)
SeqsUpTo(S, n) ==
    IF n = 0 THEN {<<>>}
    ELSE LET shorter == SeqsUpTo(S, n - 1)
         IN  shorter \cup {Append(q, x) : q \in {r \in shorter : Len(r) = n - 1}, x \in S}

\* What cl::Platform::get may report.
PlatformLists == SeqsUpTo(Platform, MaxPlatforms)

\* The data of a write() call: 1..block::size bytes.
WriteData == SeqsUpTo(Bytes, BlockSize) \ {<<>>}

(* --------------------------- GPU backend ------------------------------ *)

\* clear_buffer(buf): the status the enqueue returns (TRUE: CL_SUCCESS) and
\* the queue after it. devOk: the device has the resources for the command.
\* The copy from zero_buffer needs zero_buffer to be a buffer.
clear_buffer(q, buf, devOk) ==
    LET ok == devOk /\ context /\ (has_fillbuffer \/ zero_buffer)
    IN  [status |-> ok, queue |-> IF ok THEN Append(q, FillCmd(buf)) ELSE q]

\* The loop of init_opencl over platforms (from index i): the first
\* platform with a GPU device decides. ctxOk, zeroOk: the device creates the
\* context and queue, the zero buffer.
RECURSIVE init_platforms(_, _, _, _)
init_platforms(platforms, i, ctxOk, zeroOk) ==
    IF i > Len(platforms)
    THEN [ret |-> FALSE, context |-> context,
          has_fillbuffer |-> has_fillbuffer, zero_buffer |-> zero_buffer]
    ELSE IF ~platforms[i].gpu
    THEN init_platforms(platforms, i + 1, ctxOk, zeroOk)
    ELSE LET fill == has_fillbuffer \/ platforms[i].v12
             zero == IF fill THEN zero_buffer ELSE ctxOk /\ zeroOk
         IN  [ret |-> fill \/ zero, context |-> ctxOk,
              has_fillbuffer |-> fill, zero_buffer |-> zero]

\* init_opencl() without its first line, if (ready) return true.
init_opencl_always_probes(platforms, ctxOk, zeroOk) ==
    [probed |-> TRUE] @@ init_platforms(platforms, 1, ctxOk, zeroOk)

\* init_opencl(): probed tells whether platforms were enumerated.
init_opencl(platforms, ctxOk, zeroOk) ==
    IF ready
    THEN [ret |-> TRUE, probed |-> FALSE, context |-> context,
          has_fillbuffer |-> has_fillbuffer, zero_buffer |-> zero_buffer]
    ELSE [probed |-> TRUE] @@ init_platforms(platforms, 1, ctxOk, zeroOk)

\* bool is_available() { return (ready = init_opencl()); }
is_available(platforms, ctxOk, zeroOk) ==
    LET r == init_opencl(platforms, ctxOk, zeroOk)
    IN  /\ ready' = r.ret
        /\ context' = r.context
        /\ has_fillbuffer' = r.has_fillbuffer
        /\ zero_buffer' = r.zero_buffer
        /\ lastOp' = [op |-> "is_available", ret |-> r.ret, probed |-> r.probed]
        /\ UNCHANGED <<capacity, pool, total_blocks, devmem, queue, blocks, written, heap, threads, entries>>

pool_size == total_blocks

pool_available == Len(pool)

(* ----------------------------- block pool ----------------------------- *)

\* int block_count = 1 + (size - 1) / block::size;  (size_t arithmetic,
\* converted to int)
block_count(size) ==
    ToInt(ToSize(1 + ToSize(size - 1) \div BlockSize))

\* What the device answers in one increase_pool call: the creation of the
\* buffer (kind "alloc") or its clear (kind "clear") fails at index at, for
\* lack of resources; a creation also fails without a context and when the
\* device memory is full.
DeviceAnswers == [at : 0..capacity, kind : {"alloc", "clear"}]

AllocOk(mem, i, dev) ==
    /\ context
    /\ Cardinality(DOMAIN mem) < capacity
    /\ ~(dev.at = i /\ dev.kind = "alloc")

\* The buffer a successful cl::Buffer(context, CL_MEM_READ_WRITE, ...) makes.
NewBuffer(mem) == Cardinality(DOMAIN mem) + 1

\* increase_loop pushing the buffer before it looks at the clear's status.
RECURSIVE increase_loop_keeps_failed(_, _, _, _)
increase_loop_keeps_failed(i, count, s, dev) ==
    IF ~(i < count)
    THEN s @@ [ret |-> ToSize(ToSize(count) * BlockSize), fail |-> None]
    ELSE IF ~AllocOk(s.mem, i, dev)
    THEN s @@ [ret |-> ToSize(i * BlockSize), fail |-> i]
    ELSE LET buf    == NewBuffer(s.mem)
             c      == clear_buffer(s.queue, buf, ~(dev.at = i /\ dev.kind = "clear"))
             pushed == [pool  |-> Append(s.pool, buf),
                        total |-> s.total + 1,
                        mem   |-> (buf :> [b \in 1..BlockSize |-> Indeterminate]) @@ s.mem,
                        queue |-> c.queue]
         IN  IF c.status
             THEN increase_loop_keeps_failed(i + 1, count, pushed, dev)
             ELSE pushed @@ [ret |-> ToSize(i * BlockSize), fail |-> i]

\* The for loop of increase_pool from index i, on s = [pool, total, mem,
\* queue]. Returns s with ret, and fail: the index that failed.
RECURSIVE increase_loop(_, _, _, _)
increase_loop(i, count, s, dev) ==
    IF ~(i < count)
    THEN s @@ [ret |-> ToSize(ToSize(count) * BlockSize), fail |-> None]
    ELSE IF ~AllocOk(s.mem, i, dev)
    THEN s @@ [ret |-> ToSize(i * BlockSize), fail |-> i]
    ELSE LET buf == NewBuffer(s.mem)
             c   == clear_buffer(s.queue, buf, ~(dev.at = i /\ dev.kind = "clear"))
         IN  IF c.status
             THEN increase_loop(i + 1, count,
                      [pool  |-> Append(s.pool, buf),
                       total |-> s.total + 1,
                       mem   |-> (buf :> [b \in 1..BlockSize |-> Indeterminate]) @@ s.mem,
                       queue |-> c.queue],
                      dev)
             ELSE s @@ [ret |-> ToSize(i * BlockSize), fail |-> i]

\* size_t increase_pool(size_t size)
increase_pool(size, dev) ==
    LET r == increase_loop(0, block_count(size),
                 [pool |-> pool, total |-> total_blocks, mem |-> devmem, queue |-> queue],
                 dev)
    IN  /\ pool' = r.pool
        /\ total_blocks' = r.total
        /\ devmem' = r.mem
        /\ queue' = r.queue
        /\ lastOp' = [op |-> "increase_pool", size |-> size, ret |-> r.ret,
                      fail |-> r.fail]
        /\ UNCHANGED <<capacity, ready, has_fillbuffer, context, zero_buffer, blocks, written,
                       heap, threads, entries>>

Last(q) == q[Len(q)]
Front(q) == SubSeq(q, 1, Len(q) - 1)

\* The member initialisers of block (memory.hpp): dirty is true until the
\* first write, last_write is a null event (0: nothing to wait for;
\* k > 0: the write is the k-th command of the queue).
\* enqueued is where in the queue the last write is that the device
\* accepted for the block (0: none, or completed).
block_init == [dirty |-> TRUE, last_write |-> 0, enqueued |-> 0]

\* block::block() without pool.pop_back().
block_block_keeps(p) ==
    [block |-> [buffer |-> Last(p)] @@ block_init, pool |-> p]

\* block::block() { buffer = pool.back(); pool.pop_back(); }
block_block(p) ==
    [block |-> [buffer |-> Last(p)] @@ block_init, pool |-> Front(p)]

\* new block(): the handle of the new object.
NewHandle == CHOOSE h \in 1..(Cardinality(DOMAIN blocks) + 1) : h \notin DOMAIN blocks

\* Nothing written through the block yet.
Unwritten == [bytes |-> [i \in 1..BlockSize |-> None], calls |-> 0, zeroed |-> FALSE]

\* allocate() creating a buffer when the free list is empty.
allocate_grows ==
    /\ IF Len(pool) # 0
       THEN LET r == block_block(pool)
                h == NewHandle
            IN  /\ pool' = r.pool
                /\ blocks' = (h :> r.block) @@ blocks
                /\ written' = (h :> Unwritten) @@ written
                /\ lastOp' = [op |-> "allocate", ret |-> h]
                /\ UNCHANGED <<total_blocks, devmem>>
       ELSE LET h   == NewHandle
                buf == NewBuffer(devmem)
            IN  /\ pool' = pool
                /\ total_blocks' = total_blocks + 1
                /\ devmem' = (buf :> [b \in 1..BlockSize |-> Indeterminate]) @@ devmem
                /\ blocks' = (h :> ([buffer |-> buf] @@ block_init)) @@ blocks
                /\ written' = (h :> Unwritten) @@ written
                /\ lastOp' = [op |-> "allocate", ret |-> h]
    /\ UNCHANGED <<capacity, ready, has_fillbuffer, context, zero_buffer, queue, heap, threads, entries>>

\* block_ref allocate()
allocate ==
    /\ IF Len(pool) # 0
       THEN LET r == block_block(pool)
                h == NewHandle
            IN  /\ pool' = r.pool
                /\ blocks' = (h :> r.block) @@ blocks
                /\ written' = (h :> Unwritten) @@ written
                /\ lastOp' = [op |-> "allocate", ret |-> h]
       ELSE /\ UNCHANGED <<pool, blocks, written>>
            /\ lastOp' = [op |-> "allocate", ret |-> Null]
    /\ UNCHANGED <<capacity, ready, has_fillbuffer, context, zero_buffer, total_blocks,
                   devmem, queue, heap, threads, entries>>

Without(f, h) == [x \in DOMAIN f \ {h} |-> f[x]]

\* ~block() giving the buffer back to the device.
release_frees(h) ==
    /\ h \in DOMAIN blocks
    /\ total_blocks' = total_blocks - 1
    /\ blocks' = Without(blocks, h)
    /\ written' = Without(written, h)
    /\ lastOp' = [op |-> "release", h |-> h]
    /\ UNCHANGED <<capacity, ready, has_fillbuffer, context, zero_buffer, pool,
                   devmem, queue, heap, threads, entries>>

\* block::~block() { pool.push_back(buffer); }  (the last block_ref goes)
release(h) ==
    /\ h \in DOMAIN blocks
    /\ pool' = Append(pool, blocks[h].buffer)
    /\ blocks' = Without(blocks, h)
    /\ written' = Without(written, h)
    /\ lastOp' = [op |-> "release", h |-> h]
    /\ UNCHANGED <<capacity, ready, has_fillbuffer, context, zero_buffer, total_blocks,
                   devmem, queue, heap, threads, entries>>

(* ------------------------------ threads ------------------------------ *)

\* Threads that call allocate() on the shared pool.
MaxThreads == 2
Threads == 1..MaxThreads

\* A thread outside allocate().
Idle == [pc |-> "idle", buffer |-> None]

\* No thread has popped the empty vector yet (after that, nothing is defined).
Defined == \A t \in DOMAIN threads : threads[t].pc # "undefined"

\* allocate(), up to the test: if (pool.size() != 0)
allocate_check(t) ==
    /\ Defined
    /\ threads[t].pc = "idle"
    /\ IF Len(pool) # 0
       THEN /\ threads' = [threads EXCEPT ![t].pc = "back"]
            /\ lastOp' = [op |-> "allocate_check", t |-> t, empty |-> FALSE]
       ELSE /\ threads' = threads
            /\ lastOp' = [op |-> "allocate_check", t |-> t, empty |-> TRUE]
    /\ UNCHANGED <<capacity, ready, has_fillbuffer, context, zero_buffer, pool,
                   total_blocks, devmem, queue, blocks, written, heap, entries>>

\* block::block(): buffer = pool.back(); of an empty vector back() is
\* undefined: it reads an element that was popped, any buffer of the pool.
block_back(t) ==
    /\ Defined
    /\ threads[t].pc = "back"
    /\ \E b \in (IF Len(pool) # 0 THEN {Last(pool)} ELSE 1..total_blocks) :
          threads' = [threads EXCEPT ![t] = [pc |-> "pop_back", buffer |-> b]]
    /\ lastOp' = [op |-> "back", t |-> t, empty |-> Len(pool) = 0]
    /\ UNCHANGED <<capacity, ready, has_fillbuffer, context, zero_buffer, pool,
                   total_blocks, devmem, queue, blocks, written, heap, entries>>

\* block::block(): pool.pop_back(); and allocate() returns the block. Of an
\* empty vector pop_back() is undefined: the block is returned over a
\* vector that stays unusable, or the thread does not come back.
block_pop_back(t) ==
    /\ Defined
    /\ threads[t].pc = "pop_back"
    /\ LET h == NewHandle
           b == [buffer |-> threads[t].buffer] @@ block_init
       IN  IF Len(pool) # 0
           THEN /\ pool' = Front(pool)
                /\ blocks' = (h :> b) @@ blocks
                /\ written' = (h :> Unwritten) @@ written
                /\ threads' = [threads EXCEPT ![t] = Idle]
           ELSE \/ /\ pool' = pool
                   /\ blocks' = (h :> b) @@ blocks
                   /\ written' = (h :> Unwritten) @@ written
                   /\ threads' = [threads EXCEPT ![t].pc = "undefined"]
                \/ /\ UNCHANGED <<pool, blocks, written>>
                   /\ threads' = [threads EXCEPT ![t].pc = "undefined"]
    /\ lastOp' = [op |-> "pop_back", t |-> t, empty |-> Len(pool) = 0]
    /\ UNCHANGED <<capacity, ready, has_fillbuffer, context, zero_buffer,
                   total_blocks, devmem, queue, heap, entries>>

(* ------------------------------- block -------------------------------- *)

\* The events of the first k commands of the queue complete: the blocks'
\* last_write after it.
Completed(bs, k) ==
    [h \in DOMAIN bs |->
        [bs[h] EXCEPT !.last_write = IF @ > k THEN @ - k ELSE 0,
                      !.enqueued = IF @ > k THEN @ - k ELSE 0]]

\* The bytes [off, off + size) of a buffer.
Region(c, off, size) == [i \in 1..size |-> c[off + i]]

\* read() without the test of dirty.
read_ignores_dirty(h, off, size, devOk) ==
    /\ h \in DOMAIN blocks
    /\ IF devOk /\ context /\ ValidRegion(off, size)
       THEN LET mem == ExecuteAll(devmem, queue)
            IN  /\ devmem' = mem
                /\ queue' = <<>>
                /\ heap' = async_write_dealloc(heap, queue)
                /\ blocks' = Completed(blocks, Len(queue))
                /\ lastOp' = [op |-> "read", h |-> h, off |-> off, size |-> size,
                              done |-> TRUE,
                              ret |-> Region(mem[blocks[h].buffer], off, size)]
       ELSE /\ lastOp' = [op |-> "read", h |-> h, off |-> off, size |-> size,
                          done |-> FALSE, ret |-> <<>>]
            /\ UNCHANGED <<devmem, queue, heap, blocks>>
    /\ UNCHANGED <<capacity, ready, has_fillbuffer, context, zero_buffer, pool,
                   total_blocks, written, threads, entries>>

\* read() with a non-blocking enqueueReadBuffer: data is looked at before
\* the commands ahead of the read have executed.
read_without_waiting(h, off, size, devOk) ==
    /\ h \in DOMAIN blocks
    /\ IF blocks[h].dirty
       THEN lastOp' = [op |-> "read", h |-> h, off |-> off, size |-> size,
                       done |-> TRUE, ret |-> Zeros(size)]
       ELSE IF devOk /\ context /\ ValidRegion(off, size)
       THEN lastOp' = [op |-> "read", h |-> h, off |-> off, size |-> size,
                       done |-> TRUE,
                       ret |-> Region(devmem[blocks[h].buffer], off, size)]
       ELSE lastOp' = [op |-> "read", h |-> h, off |-> off, size |-> size,
                       done |-> FALSE, ret |-> <<>>]
    /\ UNCHANGED <<capacity, ready, has_fillbuffer, context, zero_buffer, pool,
                   total_blocks, devmem, queue, blocks, written, heap, threads, entries>>

\* void block::read(off_t offset, size_t size, void* data) const
\* devOk: the device has the resources for the read command. ret is what
\* data holds after the call, <<>> when nothing was put there.
read(h, off, size, devOk) ==
    /\ h \in DOMAIN blocks
    /\ IF blocks[h].dirty
       THEN /\ lastOp' = [op |-> "read", h |-> h, off |-> off, size |-> size,
                          done |-> TRUE, ret |-> Zeros(size)]
            /\ UNCHANGED <<devmem, queue, heap, blocks>>
       ELSE IF devOk /\ context /\ ValidRegion(off, size)
       THEN \* blocking read on the in-order queue
            LET mem == ExecuteAll(devmem, queue)
            IN  /\ devmem' = mem
                /\ queue' = <<>>
                /\ heap' = async_write_dealloc(heap, queue)
                /\ blocks' = Completed(blocks, Len(queue))
                /\ lastOp' = [op |-> "read", h |-> h, off |-> off, size |-> size,
                              done |-> TRUE,
                              ret |-> Region(mem[blocks[h].buffer], off, size)]
       ELSE /\ lastOp' = [op |-> "read", h |-> h, off |-> off, size |-> size,
                          done |-> FALSE, ret |-> <<>>]
            /\ UNCHANGED <<devmem, queue, heap, blocks>>
    /\ UNCHANGED <<capacity, ready, has_fillbuffer, context, zero_buffer, pool,
                   total_blocks, written, threads, entries>>

\* The bytes of data laid over w from offset off.
Overlay(w, off, data) ==
    [i \in 1..BlockSize |->
        IF i > off /\ i <= off + Len(data) THEN data[i - off] ELSE w[i]]

Min(a, b) == IF a < b THEN a ELSE b

\* write() without the clear of a block not written yet.
write_without_clear(h, off, data, async, clearOk, writeOk) ==
    /\ h \in DOMAIN blocks
    /\ LET b        == blocks[h]
           size     == Len(data)
           accepted == writeOk /\ context /\ ValidRegion(off, size)
           copy     == NewCopy(heap)
           cmd      == IF async THEN CopyCmd(b.buffer, off, data, copy)
                       ELSE WriteCmd(b.buffer, off, data)
           q        == IF accepted THEN Append(queue, cmd) ELSE queue
       IN  /\ async /\ Len(q) > Len(queue) => Len(queue) < MaxQueue
           /\ async => Cardinality(DOMAIN heap) < MaxCopies
           /\ IF accepted /\ ~async
              THEN /\ devmem' = ExecuteAll(devmem, q)
                   /\ queue' = <<>>
                   /\ heap' = async_write_dealloc(heap, q)
                   /\ blocks' = [Completed(blocks, Len(q)) EXCEPT
                                    ![h].dirty = FALSE, ![h].last_write = 0,
                                    ![h].enqueued = 0]
              ELSE /\ devmem' = devmem
                   /\ queue' = q
                   /\ heap' = IF async THEN (copy :> data) @@ heap ELSE heap
                   /\ blocks' = [blocks EXCEPT
                                    ![h].dirty = FALSE,
                                    ![h].last_write = IF accepted THEN Len(q) ELSE 0,
                                    ![h].enqueued = IF accepted THEN Len(q) ELSE @]
           /\ written' = [written EXCEPT
                  ![h].bytes = IF accepted THEN Overlay(@, off, data) ELSE @,
                  ![h].calls = Min(@ + 1, 2),
                  ![h].zeroed = IF b.dirty THEN size # BlockSize /\ clearOk ELSE @]
           /\ lastOp' = [op |-> "write", h |-> h, async |-> async,
                         accepted |-> accepted]
    /\ UNCHANGED <<capacity, ready, has_fillbuffer, context, zero_buffer, pool,
                   total_blocks, threads, entries>>

\* void block::write(off_t offset, size_t size, const void* data, bool async)
\* size is Len(data). clearOk, writeOk: the device has the resources for the
\* clear and for the write command.
write(h, off, data, async, clearOk, writeOk) ==
    /\ h \in DOMAIN blocks
    /\ LET b        == blocks[h]
           size     == Len(data)
           clears   == b.dirty /\ size # BlockSize
           c        == IF clears THEN clear_buffer(queue, b.buffer, clearOk)
                       ELSE [status |-> TRUE, queue |-> queue]
           accepted == writeOk /\ context /\ ValidRegion(off, size)
           copy     == NewCopy(heap)
           cmd      == IF async THEN CopyCmd(b.buffer, off, data, copy)
                       ELSE WriteCmd(b.buffer, off, data)
           q        == IF accepted THEN Append(c.queue, cmd) ELSE c.queue
           blocking == ~async
       IN  /\ (async \/ ~accepted) /\ Len(q) > Len(queue) => Len(queue) < MaxQueue
           /\ async => Cardinality(DOMAIN heap) < MaxCopies
           /\ IF accepted /\ blocking
              THEN /\ devmem' = ExecuteAll(devmem, q)
                   /\ queue' = <<>>
                   /\ heap' = async_write_dealloc(heap, q)
                   /\ blocks' = [Completed(blocks, Len(q)) EXCEPT
                                    ![h].dirty = FALSE, ![h].last_write = 0,
                                    ![h].enqueued = 0]
              ELSE /\ devmem' = devmem
                   /\ queue' = q
                   /\ heap' = IF async THEN (copy :> data) @@ heap ELSE heap
                   /\ blocks' = [blocks EXCEPT
                                    ![h].dirty = FALSE,
                                    ![h].last_write = IF accepted THEN Len(q) ELSE 0,
                                    ![h].enqueued = IF accepted THEN Len(q) ELSE @]
           /\ written' = [written EXCEPT
                  ![h].bytes = IF accepted THEN Overlay(@, off, data) ELSE @,
                  ![h].calls = Min(@ + 1, 2),
                  ![h].zeroed = IF b.dirty THEN clears /\ c.status ELSE @]
           /\ lastOp' = [op |-> "write", h |-> h, async |-> async,
                         accepted |-> accepted]
    /\ UNCHANGED <<capacity, ready, has_fillbuffer, context, zero_buffer, pool,
                   total_blocks, threads, entries>>

\* void block::sync() { last_write.wait(); }
sync(h) ==
    /\ h \in DOMAIN blocks
    /\ LET k == blocks[h].last_write
       IN  /\ devmem' = ExecuteAll(devmem, SubSeq(queue, 1, k))
           /\ queue' = SubSeq(queue, k + 1, Len(queue))
           /\ heap' = async_write_dealloc(heap, SubSeq(queue, 1, k))
           /\ blocks' = Completed(blocks, k)
           /\ lastOp' = [op |-> "sync", h |-> h, waited |-> k]
    /\ UNCHANGED <<capacity, ready, has_fillbuffer, context, zero_buffer, pool,
                   total_blocks, written, threads, entries>>

\* The device executes the first command of its queue.
DeviceStep ==
    /\ queue # <<>>
    /\ devmem' = Execute(devmem, Head(queue))
    /\ queue' = Tail(queue)
    /\ heap' = async_write_dealloc(heap, <<Head(queue)>>)
    /\ blocks' = Completed(blocks, 1)
    /\ lastOp' = [op |-> "device", copy |-> Head(queue).copy]
    /\ UNCHANGED <<capacity, ready, has_fillbuffer, context, zero_buffer, pool,
                   total_blocks, written, threads, entries>>

(* ----------------------------- path index ---------------------------- *)

\* Rows the index holds besides the root, and the longest path looked up.
MaxEntries == 2
MaxPathLen == 4

ROOT_PARENT == 0
ROOT_ENTRY == 1

ENOENT == 2
EAGAIN == 11
ENOTDIR == 20
EISDIR == 21

\* Strings are sequences of characters.
Separator == "/"
Chars == {Separator, "a"}
Paths == SeqsUpTo(Chars, MaxPathLen)

\* The names rows are given: not empty, without separator.
Names == {<<"a">>, <<"a", "a">>}

\* INSERT INTO entries (id, name, dir) VALUES (1, '', 1); parent defaults to 0.
root_entry == [id |-> ROOT_ENTRY, parent |-> ROOT_PARENT, name |-> <<>>, dir |-> TRUE]

\* entry_filter::entry_filter_t (types.hpp)
Filters == {"all", "directory", "file"}

\* getline(stream, part, '/') on what is left of the stream: whether it
\* extracted anything, the part, and what is left after it.
RECURSIVE getline(_)
getline(rest) ==
    IF rest = <<>> THEN [ok |-> FALSE, part |-> <<>>, rest |-> <<>>]
    ELSE IF Head(rest) = Separator
    THEN [ok |-> TRUE, part |-> <<>>, rest |-> Tail(rest)]
    ELSE LET more == getline(Tail(rest))
         IN  [ok |-> TRUE, part |-> <<Head(rest)>> \o more.part, rest |-> more.rest]

\* SELECT id, dir FROM entries WHERE name = ? LIMIT 1 (the parent forgotten)
lookup_any_parent(rows, parent, name) ==
    {r \in rows : r.name = name}

\* SELECT id, dir FROM entries WHERE parent = ? AND name = ? LIMIT 1
lookup(rows, parent, name) ==
    {r \in rows : r.parent = parent /\ r.name = name}

\* The while loop without the test of dir.
RECURSIVE find_loop_through_files(_, _, _, _)
find_loop_through_files(rows, rest, entry, dir) ==
    LET line == getline(rest)
    IN  IF ~line.ok THEN [entry |-> entry, dir |-> dir, lookups |-> 0]
        ELSE LET found == lookup(rows, entry, line.part)
             IN  IF found = {} THEN [entry |-> -ENOENT, dir |-> dir, lookups |-> 1]
                 ELSE LET r == CHOOSE x \in found : TRUE
                          n == find_loop_through_files(rows, line.rest, r.id, r.dir)
                      IN  [n EXCEPT !.lookups = @ + 1]

\* The while loop of index_find on what is left of the path: the entry and
\* dir it ends with, and how many times it stepped the lookup query.
RECURSIVE find_loop(_, _, _, _)
find_loop(rows, rest, entry, dir) ==
    LET line == getline(rest)
    IN  IF ~line.ok THEN [entry |-> entry, dir |-> dir, lookups |-> 0]
        ELSE IF ~dir THEN [entry |-> -ENOTDIR, dir |-> dir, lookups |-> 0]
        ELSE LET found == lookup(rows, entry, line.part)
             IN  IF found = {} THEN [entry |-> -ENOENT, dir |-> dir, lookups |-> 1]
                 ELSE LET r == CHOOSE x \in found : TRUE
                          n == find_loop(rows, line.rest, r.id, r.dir)
                      IN  [n EXCEPT !.lookups = @ + 1]

\* index_find with the filter applied to errors of the walk too.
index_find_filters_errors(rows, path, filter, stmtOk) ==
    IF ~stmtOk THEN -EAGAIN
    ELSE LET r == find_loop(rows, path, ROOT_PARENT, TRUE)
         IN  IF filter = "directory" /\ ~r.dir THEN -ENOTDIR
             ELSE IF filter = "file" /\ r.dir THEN -EISDIR
             ELSE r.entry

\* index_find with the walk started at the root entry.
index_find_from_root(rows, path, filter, stmtOk) ==
    IF ~stmtOk THEN -EAGAIN
    ELSE LET r == find_loop(rows, path, ROOT_ENTRY, TRUE)
         IN  IF r.entry > 0 /\ filter = "directory" /\ ~r.dir THEN -ENOTDIR
             ELSE IF r.entry > 0 /\ filter = "file" /\ r.dir THEN -EISDIR
             ELSE r.entry

\* int64_t index_find(db, path, filter); stmtOk: the query was prepared.
index_find(rows, path, filter, stmtOk) ==
    IF ~stmtOk THEN -EAGAIN
    ELSE LET r == find_loop(rows, path, ROOT_PARENT, TRUE)
         IN  IF r.entry > 0 /\ filter = "directory" /\ ~r.dir THEN -ENOTDIR
             ELSE IF r.entry > 0 /\ filter = "file" /\ r.dir THEN -EISDIR
             ELSE r.entry

\* The lookups index_find makes on a path.
index_lookups(rows, path, stmtOk) ==
    IF ~stmtOk THEN 0 ELSE find_loop(rows, path, ROOT_PARENT, TRUE).lookups

\* A lookup of a path in the index.
Find ==
    /\ \E path \in Paths, filter \in Filters, stmtOk \in BOOLEAN :
          lastOp' = [op |-> "index_find", path |-> path, filter |-> filter,
                     prepared |-> stmtOk,
                     lookups |-> index_lookups(entries, path, stmtOk),
                     ret |-> index_find(entries, path, filter, stmtOk)]
    /\ UNCHANGED <<capacity, ready, has_fillbuffer, context, zero_buffer, pool,
                   total_blocks, devmem, queue, blocks, written, heap, threads, entries>>

\* A row is added to the index, as the data model has it: the next id, a
\* name no sibling has, under a directory.
Populate ==
    /\ Cardinality(entries) <= MaxEntries
    /\ \E parent \in {r.id : r \in {x \in entries : x.dir}}, name \in Names, dir \in BOOLEAN :
          /\ lookup(entries, parent, name) = {}
          /\ entries' = entries \cup
                {[id |-> Cardinality(entries) + 1, parent |-> parent,
                  name |-> name, dir |-> dir]}
    /\ lastOp' = [op |-> "populate"]
    /\ UNCHANGED <<capacity, ready, has_fillbuffer, context, zero_buffer, pool,
                   total_blocks, devmem, queue, blocks, written, heap, threads>>

(* ----------------------------- dispatcher ---------------------------- *)

EACCES == 13
O_RDONLY == 0
\* fi->flags & 3: the bits of the access mode.
O_ACCMODE == 3

\* fi->flags: the access mode and one bit above it.
OpenFlags == 0..(2 * O_ACCMODE + 1)

\* The paths the kernel bridge hands to a handler: they start with /.
FusePaths == {p \in Paths : p # <<>> /\ Head(p) = Separator}

Dot == <<".">>
DotDot == <<".", ".">>

\* The rows of a set in the order of their ids.
RECURSIVE by_id(_)
by_id(rows) ==
    IF rows = {} THEN <<>>
    ELSE LET r == CHOOSE x \in rows : \A y \in rows : x.id <= y.id
         IN  <<r>> \o by_id(rows \ {r})

\* SELECT name FROM entries WHERE parent = ?, stepped to its end.
select_names(rows, parent) ==
    LET found == by_id({r \in rows : r.parent = parent})
    IN  [i \in 1..Len(found) |-> found[i].name]

\* The value of stbuf that the caller passed in.
Untouched == [mode |-> "none", nlink |-> 0]

\* int vram_getattr(path, stbuf): what it returns and what stbuf holds.
vram_getattr(rows, path, stmtOk) ==
    LET entry == index_find(rows, path, "all", stmtOk)
    IN  IF entry > 0
        THEN LET r == CHOOSE x \in rows : x.id = entry
             IN  [ret |-> 0,
                  stbuf |-> IF r.dir THEN [mode |-> "S_IFDIR", nlink |-> 2]
                            ELSE [mode |-> "S_IFREG", nlink |-> 1]]
        ELSE [ret |-> entry, stbuf |-> Untouched]

\* vram_readdir with a listing of the row itself next to its children.
readdir_lists_self(rows, path, stmtOk) ==
    LET entry == index_find(rows, path, "directory", stmtOk)
    IN  IF entry > 0
        THEN [ret |-> 0,
              emitted |-> <<Dot, DotDot>> \o select_names(rows, entry)
                            \o <<(CHOOSE x \in rows : x.id = entry).name>>]
        ELSE [ret |-> entry, emitted |-> <<>>]

\* int vram_readdir(path, buf, filler, ...): what it returns and the names
\* it passed to filler, in order.
vram_readdir(rows, path, stmtOk) ==
    LET entry == index_find(rows, path, "directory", stmtOk)
    IN  IF entry > 0
        THEN [ret |-> 0,
              emitted |-> <<Dot, DotDot>> \o select_names(rows, entry)]
        ELSE [ret |-> entry, emitted |-> <<>>]

\* vram_open with the access mode tested before the path is resolved.
open_checks_mode_first(rows, path, flags, stmtOk) ==
    LET entry == index_find(rows, path, "file", stmtOk)
    IN  IF flags % (O_ACCMODE + 1) # O_RDONLY THEN -EACCES
        ELSE IF entry > 0 THEN 0
        ELSE entry

\* int vram_open(path, fi)
vram_open(rows, path, flags, stmtOk) ==
    LET entry == index_find(rows, path, "file", stmtOk)
    IN  IF entry > 0
        THEN IF flags % (O_ACCMODE + 1) = O_RDONLY THEN 0 ELSE -EACCES
        ELSE entry

Getattr ==
    /\ \E path \in FusePaths, stmtOk \in BOOLEAN :
          LET r == vram_getattr(entries, path, stmtOk)
          IN  lastOp' = [op |-> "getattr", path |-> path, prepared |-> stmtOk,
                         ret |-> r.ret, stbuf |-> r.stbuf]
    /\ UNCHANGED <<capacity, ready, has_fillbuffer, context, zero_buffer, pool,
                   total_blocks, devmem, queue, blocks, written, heap, threads, entries>>

Readdir ==
    /\ \E path \in FusePaths, stmtOk \in BOOLEAN :
          LET r == vram_readdir(entries, path, stmtOk)
          IN  lastOp' = [op |-> "readdir", path |-> path, prepared |-> stmtOk,
                         ret |-> r.ret, emitted |-> r.emitted]
    /\ UNCHANGED <<capacity, ready, has_fillbuffer, context, zero_buffer, pool,
                   total_blocks, devmem, queue, blocks, written, heap, threads, entries>>

Open ==
    /\ \E path \in FusePaths, flags \in OpenFlags, stmtOk \in BOOLEAN :
          lastOp' = [op |-> "open", path |-> path, flags |-> flags,
                     prepared |-> stmtOk,
                     ret |-> vram_open(entries, path, flags, stmtOk)]
    /\ UNCHANGED <<capacity, ready, has_fillbuffer, context, zero_buffer, pool,
                   total_blocks, devmem, queue, blocks, written, heap, threads, entries>>

(* --------------------------- specification ---------------------------- *)

Init ==
    /\ capacity = MaxBuffers
    /\ ready = FALSE
    /\ has_fillbuffer = FALSE
    /\ context = FALSE
    /\ zero_buffer = FALSE
    /\ pool = <<>>
    /\ total_blocks = 0
    /\ devmem = <<>>
    /\ queue = <<>>
    /\ blocks = <<>>
    /\ written = <<>>
    /\ heap = <<>>
    /\ threads = <<>>
    /\ entries = {}
    /\ lastOp = [op |-> "none"]

IsAvailable ==
    \E platforms \in PlatformLists, ctxOk, zeroOk \in BOOLEAN :
        is_available(platforms, ctxOk, zeroOk)

IncreasePool(sizes) ==
    \E size \in sizes, dev \in DeviceAnswers : increase_pool(size, dev)

Allocate == allocate

Release == \E h \in DOMAIN blocks : release(h)

Read ==
    \E h \in DOMAIN blocks, off \in 0..(BlockSize - 1), size \in 1..BlockSize, devOk \in BOOLEAN :
        read(h, off, size, devOk)

Write ==
    \E h \in DOMAIN blocks, off \in 0..(BlockSize - 1),
       data \in WriteData, async, clearOk, writeOk \in BOOLEAN :
        write(h, off, data, async, clearOk, writeOk)

Sync == \E h \in DOMAIN blocks : sync(h)

\* The backend and the pool, on a device with memory for MaxBuffers buffers.
Next ==
    \/ IsAvailable
    \/ IncreasePool(0..MaxSize)
    \/ Allocate
    \/ Release
    \/ DeviceStep

Spec == Init /\ [][Next]_vars

\* The pool and the blocks' data, once is_available() has returned true, on a
\* device with memory for DataBuffers buffers.
InitData ==
    /\ capacity = DataBuffers
    /\ ready = TRUE
    /\ context = TRUE
    /\ has_fillbuffer \in BOOLEAN
    /\ zero_buffer = ~has_fillbuffer
    /\ pool = <<>>
    /\ total_blocks = 0
    /\ devmem = <<>>
    /\ queue = <<>>
    /\ blocks = <<>>
    /\ written = <<>>
    /\ heap = <<>>
    /\ threads = <<>>
    /\ entries = {}
    /\ lastOp = [op |-> "none"]

NextData ==
    \/ IncreasePool(1..BlockSize)
    \/ Allocate
    \/ Release
    \/ Read
    \/ Write
    \/ Sync
    \/ DeviceStep

SpecData == InitData /\ [][NextData]_vars

\* Threads on the shared pool, a step of each being one statement of
\* allocate() and block::block().
InitThreads ==
    /\ capacity = MaxBuffers
    /\ ready = TRUE
    /\ context = TRUE
    /\ has_fillbuffer = TRUE
    /\ zero_buffer = FALSE
    /\ pool = <<>>
    /\ total_blocks = 0
    /\ devmem = <<>>
    /\ queue = <<>>
    /\ blocks = <<>>
    /\ written = <<>>
    /\ heap = <<>>
    /\ threads = [t \in Threads |-> Idle]
    /\ entries = {}
    /\ lastOp = [op |-> "none"]

AllocateCheck == \E t \in Threads : allocate_check(t)

BlockBack == \E t \in Threads : block_back(t)

BlockPopBack == \E t \in Threads : block_pop_back(t)

NextThreads ==
    \/ IncreasePool(1..BlockSize)
    \/ AllocateCheck
    \/ BlockBack
    \/ BlockPopBack
    \/ Release

SpecThreads == InitThreads /\ [][NextThreads]_vars

\* The same, on a device that executes every command it has accepted.
SpecAsync == InitData /\ [][NextData]_vars /\ WF_vars(DeviceStep)

\* The index once vram_init has created the table and its root row.
InitIndex ==
    /\ capacity = 0
    /\ ready = FALSE
    /\ has_fillbuffer = FALSE
    /\ context = FALSE
    /\ zero_buffer = FALSE
    /\ pool = <<>>
    /\ total_blocks = 0
    /\ devmem = <<>>
    /\ queue = <<>>
    /\ blocks = <<>>
    /\ written = <<>>
    /\ heap = <<>>
    /\ threads = <<>>
    /\ entries = {root_entry}
    /\ lastOp = [op |-> "none"]

NextIndex ==
    \/ Populate
    \/ Find

SpecIndex == InitIndex /\ [][NextIndex]_vars

NextFuse ==
    \/ Populate
    \/ Getattr
    \/ Readdir
    \/ Open

SpecFuse == InitIndex /\ [][NextFuse]_vars

(* ------------------------------ claims -------------------------------- *)

\* size_bytes / block_size, rounded up.
CeilBlocks(size) == (size + BlockSize - 1) \div BlockSize

Range(q) == {q[i] : i \in 1..Len(q)}

\* C1: when increase_pool stops at the first failing block, index i, it
\* returns i * block_size, and exactly the i blocks before it are added to
\* the free list and to the total: pool_available() and pool_size() grow by
\* i, the free list keeps what it held, and i fresh buffers follow.
C1_PartialSuccess ==
    [][(lastOp'.op = "increase_pool" /\ lastOp'.fail # None) =>
        LET i == lastOp'.fail
        IN  /\ lastOp'.ret = i * BlockSize
            /\ pool_available' = pool_available + i
            /\ pool_size' = pool_size + i
            /\ SubSeq(pool', 1, Len(pool)) = pool
            /\ Cardinality(Range(pool') \ DOMAIN devmem) = i
            /\ DOMAIN devmem' = DOMAIN devmem \cup Range(pool')]_vars

\* An increase_pool call asked for three blocks and stopped at the second.
C1_Witness ==
    /\ lastOp.op = "increase_pool"
    /\ lastOp.fail = 1
    /\ CeilBlocks(lastOp.size) = 3
    /\ lastOp.ret = BlockSize
    /\ pool_available = 1

\* C2: on full success, for every size_bytes >= 1, increase_pool adds
\* ceil(size_bytes / block_size) blocks and returns that many block sizes, a
\* value >= size_bytes and less than one block above it.
C2_FullSuccess ==
    [][(lastOp'.op = "increase_pool" /\ lastOp'.fail = None /\ lastOp'.size >= 1) =>
        /\ pool_available' = pool_available + CeilBlocks(lastOp'.size)
        /\ pool_size' = pool_size + CeilBlocks(lastOp'.size)
        /\ lastOp'.ret = CeilBlocks(lastOp'.size) * BlockSize
        /\ lastOp'.ret >= lastOp'.size
        /\ lastOp'.ret - lastOp'.size < BlockSize]_vars

\* C3: allocate() never grows the pool. On an empty free list it returns
\* null and changes neither pool_size() nor pool_available(); otherwise it
\* returns a new block and takes exactly one buffer from the free list.
C3_AllocateNeverGrows ==
    [][lastOp'.op = "allocate" =>
        /\ pool_size' = pool_size
        /\ DOMAIN devmem' = DOMAIN devmem
        /\ IF pool_available = 0
           THEN /\ lastOp'.ret = Null
                /\ pool_available' = 0
                /\ blocks' = blocks
           ELSE /\ lastOp'.ret # Null
                /\ DOMAIN blocks' = DOMAIN blocks \cup {lastOp'.ret}
                /\ lastOp'.ret \notin DOMAIN blocks
                /\ blocks'[lastOp'.ret].buffer \in Range(pool)
                /\ pool_available' = pool_available - 1
                /\ Range(pool') = Range(pool) \ {blocks'[lastOp'.ret].buffer}]_vars

\* allocate() returned null while every buffer of a non-empty pool was out.
C3_Witness ==
    /\ lastOp.op = "allocate"
    /\ lastOp.ret = Null
    /\ pool_size > 0
    /\ pool_available = 0

\* C4: every buffer of the pool is in the free list or wrapped by exactly
\* one live block, never both and never twice, and
\* pool_available() = pool_size() - (number of live blocks).
C4_ExclusiveOwnership ==
    /\ \A i, j \in 1..Len(pool) : pool[i] = pool[j] => i = j
    /\ \A g, h \in DOMAIN blocks : blocks[g].buffer = blocks[h].buffer => g = h
    /\ \A h \in DOMAIN blocks : blocks[h].buffer \notin Range(pool)
    /\ DOMAIN devmem = Range(pool) \cup {blocks[h].buffer : h \in DOMAIN blocks}
    /\ pool_available = pool_size - Cardinality(DOMAIN blocks)

\* Three blocks were allocated from a pool of three, and one was released.
C4_Witness ==
    /\ lastOp.op = "release"
    /\ pool_size = 3
    /\ pool_available = 1
    /\ Cardinality(DOMAIN blocks) = 2
    /\ lastOp.h = 3

\* C5: pool_size() never decreases: allocate, release, read, write and sync
\* leave it unchanged, and increase_pool raises it by the number of blocks it
\* pushed onto the free list.
C5_PoolSizeMonotonic ==
    [][/\ pool_size' >= pool_size
       /\ lastOp'.op # "increase_pool" => pool_size' = pool_size
       /\ lastOp'.op = "increase_pool" =>
            /\ pool_size' - pool_size = pool_available' - pool_available
            /\ SubSeq(pool', 1, Len(pool)) = pool]_vars

\* A block of a grown pool was written.
C5_Witness ==
    /\ lastOp.op = "write"
    /\ pool_size = DataBuffers
    /\ pool_available = pool_size - 1

\* C6: a block returned by allocate() starts dirty, and a read of a dirty
\* block returns size zero bytes and issues no device command, whatever the
\* wrapped buffer holds and whatever is still pending on the queue.
C6_DirtyReadsZero ==
    [][/\ (lastOp'.op = "allocate" /\ lastOp'.ret # Null) => blocks'[lastOp'.ret].dirty
       /\ (lastOp'.op = "read" /\ blocks[lastOp'.h].dirty) =>
            /\ lastOp'.done
            /\ lastOp'.ret = Zeros(lastOp'.size)
            /\ queue' = queue
            /\ devmem' = devmem
            /\ blocks' = blocks]_vars

\* A dirty block on a recycled buffer was read while a write of non-zero
\* data to that buffer, by the block released before, is still pending.
C6_Witness ==
    /\ lastOp.op = "read"
    /\ lastOp.h \in DOMAIN blocks
    /\ blocks[lastOp.h].dirty
    /\ lastOp.ret = Zeros(BlockSize)
    /\ \E i \in 1..Len(queue) :
          /\ queue[i].buf = blocks[lastOp.h].buffer
          /\ \E j \in 1..Len(queue[i].data) : queue[i].data[j] # 0

\* The bytes a read of [off, off + size) finds already written.
WrittenIn(h, off, size) == {i \in 1..size : written[h].bytes[off + i] # None}

\* C7: after a first write to a sub-range that does not cover the whole
\* block (its clear and the write accepted by the device), a read returns
\* the written bytes within the sub-range and zeros outside it: the written
\* bytes for exactly that sub-range, all zeros for a disjoint one.
C7_PartialFirstWrite ==
    [][(/\ lastOp'.op = "read"
        /\ lastOp'.done
        /\ written[lastOp'.h].calls = 1
        /\ written[lastOp'.h].zeroed
        /\ \E i \in 1..BlockSize : written[lastOp'.h].bytes[i] # None) =>
        \A i \in 1..lastOp'.size :
            lastOp'.ret[i] =
                IF i \in WrittenIn(lastOp'.h, lastOp'.off, lastOp'.size)
                THEN written[lastOp'.h].bytes[lastOp'.off + i]
                ELSE 0]_vars

\* After a first write of a non-zero byte to one byte of a block, the read
\* of the other byte returned zero.
C7_Witness ==
    /\ lastOp.op = "read"
    /\ lastOp.done
    /\ lastOp.h \in DOMAIN blocks
    /\ written[lastOp.h].calls = 1
    /\ written[lastOp.h].zeroed
    /\ \E i \in 1..BlockSize : written[lastOp.h].bytes[i] \notin {None, 0}
    /\ lastOp.size = 1
    /\ WrittenIn(lastOp.h, lastOp.off, 1) = {}
    /\ lastOp.ret = <<0>>

\* C8: a read issued after writes to the block, synchronous or asynchronous
\* and with no sync() in between, finds at every byte some accepted write
\* covered the data of the latest such write.
C8_ReadAfterWrite ==
    [][(lastOp'.op = "read" /\ lastOp'.done /\ written[lastOp'.h].calls >= 1) =>
        \A i \in WrittenIn(lastOp'.h, lastOp'.off, lastOp'.size) :
            lastOp'.ret[i] = written[lastOp'.h].bytes[lastOp'.off + i]]_vars

\* A read found the data of the later of several writes, one of them still
\* pending when the read was issued.
C8_Witness ==
    /\ lastOp.op = "read"
    /\ lastOp.done
    /\ lastOp.h \in DOMAIN blocks
    /\ written[lastOp.h].calls = 2
    /\ lastOp.size = BlockSize
    /\ \A i \in 1..BlockSize : lastOp.ret[i] \notin {0, None}

\* C9: is_available() made while the backend is not initialised enumerates
\* the platforms again and returns that attempt's outcome, which alone
\* decides whether the backend is initialised afterwards; once initialised,
\* it returns true without enumerating and stays initialised.
C9_RetryOnFailure ==
    [][lastOp'.op = "is_available" =>
        /\ ready' = lastOp'.ret
        /\ ready => lastOp'.ret /\ ~lastOp'.probed
        /\ ~ready => lastOp'.probed]_vars

\* A failed attempt that left a context behind: the backend is still not
\* initialised.
C9_Witness ==
    /\ lastOp.op = "is_available"
    /\ ~lastOp.ret
    /\ lastOp.probed
    /\ context
    /\ ~ready

\* The id of the row named name under parent, or -ENOENT.
ChildOrNotFound(parent, name) ==
    IF \E r \in entries : r.parent = parent /\ r.name = name
    THEN (CHOOSE r \in entries : r.parent = parent /\ r.name = name).id
    ELSE -ENOENT

Row(id) == CHOOSE r \in entries : r.id = id

\* The names from the root down to a row, each after a separator: the empty
\* string for the root.
RECURSIVE JoinedPath(_)
JoinedPath(id) ==
    IF id = ROOT_ENTRY THEN <<>>
    ELSE JoinedPath(Row(id).parent) \o <<Separator>> \o Row(id).name

\* The path of a directory as the claim has it: "/" for the root.
ClaimedPath(id) ==
    IF id = ROOT_ENTRY THEN <<Separator>> ELSE JoinedPath(id)

Directories == {r.id : r \in {x \in entries : x.dir}}

\* C10 as stated: index_find("/") is 1, and for every directory D, the
\* root with path "/" included, index_find(D's path + "/" + N) is N's id
\* when N is under D and -ENOENT when it is not.
C10_AsClaimed ==
    (lastOp.op = "index_find" /\ lastOp.prepared /\ lastOp.filter = "all") =>
        /\ lastOp.path = <<Separator>> => lastOp.ret = ROOT_ENTRY
        /\ \A d \in Directories, n \in Names :
              lastOp.path = ClaimedPath(d) \o <<Separator>> \o n =>
                  lastOp.ret = ChildOrNotFound(d, n)

\* C10, amended: index_find("/") is 1, and for every directory D, with D's
\* path the names from the root down to D each after a separator (the empty
\* string for the root, so that a child N of the root is looked up as
\* "/" + N), index_find(D's path + "/" + N) is N's id when N is under D and
\* -ENOENT when it is not.
C10_ResolveChild ==
    (lastOp.op = "index_find" /\ lastOp.prepared /\ lastOp.filter = "all") =>
        /\ lastOp.path = <<Separator>> => lastOp.ret = ROOT_ENTRY
        /\ \A d \in Directories, n \in Names :
              lastOp.path = JoinedPath(d) \o <<Separator>> \o n =>
                  lastOp.ret = ChildOrNotFound(d, n)

\* A row two levels below the root was found by its path, under a
\* directory that holds no row of another name.
C10_Witness ==
    /\ lastOp.op = "index_find"
    /\ lastOp.prepared
    /\ lastOp.filter = "all"
    /\ \E d \in Directories \ {ROOT_ENTRY}, n \in Names :
          /\ lastOp.path = JoinedPath(d) \o <<Separator>> \o n
          /\ lastOp.ret > ROOT_ENTRY
          /\ Row(lastOp.ret).parent = d
          /\ \E m \in Names : ChildOrNotFound(d, m) = -ENOENT

\* The components of a path, as getline cuts them.
RECURSIVE Components(_)
Components(path) ==
    LET line == getline(path)
    IN  IF ~line.ok THEN <<>> ELSE <<line.part>> \o Components(line.rest)

\* The id of the row that the names parts lead to from the sentinel parent
\* through directories only, None when there is no such row.
RECURSIVE WalkId(_)
WalkId(parts) ==
    IF parts = <<>> THEN ROOT_PARENT
    ELSE LET p == WalkId(SubSeq(parts, 1, Len(parts) - 1))
         IN  IF p = None THEN None
             ELSE IF p # ROOT_PARENT /\ ~Row(p).dir THEN None
             ELSE IF ChildOrNotFound(p, parts[Len(parts)]) < 0 THEN None
             ELSE ChildOrNotFound(p, parts[Len(parts)])

\* A component of the path before its last resolves to a row that is no
\* directory.
FileOnTheWay(path) ==
    \E k \in 1..(Len(Components(path)) - 1) :
        LET id == WalkId(SubSeq(Components(path), 1, k))
        IN  id > 0 /\ ~Row(id).dir

\* C11: when a non-final component of the path resolves to a non-directory
\* entry, index_find returns -ENOTDIR, whatever the later components and
\* whatever the filter.
C11_NotADirectory ==
    (lastOp.op = "index_find" /\ lastOp.prepared /\ FileOnTheWay(lastOp.path)) =>
        lastOp.ret = -ENOTDIR

\* A file under the root was found on the way to a later component, with
\* a filter other than 'all'.
C11_Witness ==
    /\ lastOp.op = "index_find"
    /\ lastOp.prepared
    /\ lastOp.filter = "file"
    /\ Len(Components(lastOp.path)) = 3
    /\ FileOnTheWay(lastOp.path)
    /\ lastOp.ret = -ENOTDIR

\* C12: the filter is applied only to a path that resolved: 'directory' on
\* a file gives -ENOTDIR, 'file' on a directory gives -EISDIR, every other
\* resolved entry's id is returned unchanged, and an error of the walk is
\* returned as it is.
C12_TypeFilter ==
    (lastOp.op = "index_find" /\ lastOp.prepared) =>
        LET id == WalkId(Components(lastOp.path))
            walk == index_find(entries, lastOp.path, "all", TRUE)
        IN  /\ id > 0 =>
                lastOp.ret =
                    IF lastOp.filter = "directory" /\ ~Row(id).dir THEN -ENOTDIR
                    ELSE IF lastOp.filter = "file" /\ Row(id).dir THEN -EISDIR
                    ELSE id
            /\ walk < 0 => lastOp.ret = walk

\* Both filter errors have a state, and so has an error of the walk under a
\* filter that the entry the walk ended in would not pass.
C12_Witness ==
    /\ lastOp.op = "index_find"
    /\ lastOp.prepared
    /\ lastOp.filter = "file"
    /\ lastOp.ret = -ENOENT
    /\ Len(Components(lastOp.path)) = 3
    /\ \E r \in entries : ~r.dir /\ index_find(entries, JoinedPath(r.id), "directory", TRUE) = -ENOTDIR
    /\ \E r \in entries : r.dir /\ r.id # ROOT_ENTRY
                          /\ index_find(entries, JoinedPath(r.id), "file", TRUE) = -EISDIR

\* C13: open of an existing file succeeds with a read-only access mode and
\* is refused with -EACCES with any other; of a path that does not resolve
\* to a file it returns the error of the resolution whatever the mode; it
\* changes neither the index nor anything else.
C13_OpenReadOnly ==
    [][lastOp'.op = "open" =>
        LET id == WalkId(Components(lastOp'.path))
            resolved == index_find(entries, lastOp'.path, "file", lastOp'.prepared)
        IN  /\ (lastOp'.prepared /\ id > 0 /\ ~Row(id).dir) =>
                lastOp'.ret = IF lastOp'.flags \in {0, 4} THEN 0 ELSE -EACCES
            /\ ~(lastOp'.prepared /\ id > 0 /\ ~Row(id).dir) =>
                /\ lastOp'.ret = resolved
                /\ lastOp'.ret \in {-ENOENT, -ENOTDIR, -EISDIR, -EAGAIN}
            /\ UNCHANGED <<capacity, ready, has_fillbuffer, context, zero_buffer,
                           pool, total_blocks, devmem, queue, blocks, written,
                           heap, threads, entries>>]_vars

\* A file two levels below the root was refused to a read-write open, in an
\* index with a directory that a write-only open would not pass either.
C13_Witness ==
    /\ lastOp.op = "open"
    /\ lastOp.prepared
    /\ lastOp.flags % 4 = 2
    /\ lastOp.ret = -EACCES
    /\ Len(Components(lastOp.path)) = 3
    /\ vram_open(entries, <<Separator, "a">>, 1, TRUE) = -EISDIR

\* The names of the rows under a parent, as a set.
ChildNames(parent) == {r.name : r \in {x \in entries : x.parent = parent}}

C18_NoLookup ==
    (lastOp.op = "index_find" /\ lastOp.prepared /\ lastOp.path = <<Separator>>) =>
        /\ lastOp.lookups = 0
        /\ lastOp.filter # "file" => lastOp.ret = ROOT_ENTRY

\* C18, amended: index_find("/") makes exactly one (parent, name) lookup,
\* of the empty name under the sentinel parent, which the root row matches,
\* and returns the root's id (-EISDIR under the filter 'file').
C18_RootByLookup ==
    (lastOp.op = "index_find" /\ lastOp.prepared /\ lastOp.path = <<Separator>>) =>
        /\ Components(lastOp.path) = << <<>> >>
        /\ lastOp.lookups = 1
        /\ lookup(entries, ROOT_PARENT, <<>>) = {root_entry}
        /\ lastOp.ret = IF lastOp.filter = "file" THEN -EISDIR ELSE ROOT_ENTRY

\* "/" was resolved to the root in an index that holds other rows.
C18_Witness ==
    /\ lastOp.op = "index_find"
    /\ lastOp.prepared
    /\ lastOp.path = <<Separator>>
    /\ lastOp.ret = ROOT_ENTRY
    /\ Cardinality(entries) > 1

\* C19: for every path and filter, index_find returns the id of a row of
\* the index or one of -ENOENT, -ENOTDIR, -EISDIR, -EAGAIN; never 0.
C19_NeverZero ==
    lastOp.op = "index_find" =>
        \/ lastOp.ret \in {r.id : r \in entries}
        \/ lastOp.ret \in {-ENOENT, -ENOTDIR, -EISDIR, -EAGAIN}

\* C15 as stated: a write() that the device accepted leaves the block
\* clean, at once, with the write as its last write; a clean block stays
\* clean; and a write() that the device did not accept leaves a dirty block
\* dirty.
C15_DirtyOnlyClearedByEnqueue ==
    [][/\ \A h \in DOMAIN blocks \cap DOMAIN blocks' :
              ~blocks[h].dirty => ~blocks'[h].dirty
       /\ lastOp'.op = "write" =>
              /\ lastOp'.accepted =>
                     /\ ~blocks'[lastOp'.h].dirty
                     /\ blocks'[lastOp'.h].last_write = blocks'[lastOp'.h].enqueued
              /\ ~lastOp'.accepted =>
                     blocks'[lastOp'.h].dirty = blocks[lastOp'.h].dirty]_vars

\* The commands of the queue that read a private copy.
CopyCmds == {i \in 1..Len(queue) : queue[i].copy # None}

\* C16: an asynchronous write returns with its command on the queue and
\* the device's memory as it was; the private copy of a command on the
\* queue is allocated and holds the caller's bytes of the time of the call,
\* no two commands share a copy; a copy is deleted only in a step in which
\* its command completes; and the copy of every command on the queue is
\* eventually deleted.
C16_PrivateCopy ==
    /\ [](\A i \in CopyCmds :
            /\ queue[i].copy \in DOMAIN heap
            /\ heap[queue[i].copy] = queue[i].data
            /\ \A j \in CopyCmds : queue[j].copy = queue[i].copy => j = i)
    /\ [][/\ (lastOp'.op = "write" /\ lastOp'.async /\ lastOp'.accepted) =>
                 /\ devmem' = devmem
                 /\ queue' # <<>>
                 /\ Last(queue').copy \in DOMAIN heap' \ DOMAIN heap
          /\ \A a \in DOMAIN heap \ DOMAIN heap' :
                 /\ \E i \in CopyCmds : queue[i].copy = a
                 /\ \A j \in 1..Len(queue') : queue'[j].copy # a]_vars
    /\ \A a \in 1..MaxCopies :
          (\E i \in CopyCmds : queue[i].copy = a) ~> (a \notin DOMAIN heap)

\* The device completed an asynchronous write and its copy was deleted,
\* after the block that wrote it was released.
C16_Witness ==
    /\ lastOp.op = "device"
    /\ lastOp.copy # None
    /\ heap = <<>>
    /\ blocks = <<>>

\* C17 as stated: sync() returns when the last write the device accepted
\* for the block has completed, and on a block never written it waits for
\* nothing and changes nothing; release leaves the queue and the device as
\* they are and puts the buffer on the free list.
C17_SyncWaitsForLastWrite ==
    [][/\ lastOp'.op = "sync" =>
              /\ blocks'[lastOp'.h].enqueued = 0
              /\ written[lastOp'.h].calls = 0 =>
                     /\ lastOp'.waited = 0
                     /\ UNCHANGED <<devmem, queue, blocks, heap, pool>>
       /\ lastOp'.op = "release" =>
              /\ UNCHANGED <<devmem, queue, heap>>
              /\ Len(pool') = Len(pool) + 1
              /\ Last(pool') = blocks[lastOp'.h].buffer]_vars

\* C20: whatever the interleaving of the threads, no two live blocks wrap
\* the same buffer, no thread pops or reads the back of an empty free list,
\* and when no thread is inside allocate(), pool_available() is
\* pool_size() minus the number of live blocks.
C20_ExclusiveUnderConcurrency ==
    /\ \A g, h \in DOMAIN blocks : blocks[g].buffer = blocks[h].buffer => g = h
    /\ lastOp.op \in {"back", "pop_back"} => ~lastOp.empty
    /\ (\A t \in DOMAIN threads : threads[t].pc = "idle") =>
           pool_available = pool_size - Cardinality(DOMAIN blocks)

====
